---- MODULE Spec2Model ----
(***************************************************************************)
(* Model of reginald's register data model (src/reginald/datamodel.py) and *)
(* of the c_funcpack enum generator                                        *)
(* (src/reginald/builtin_generators/c_funcpack/enums.py).                  *)
(*                                                                         *)
(* Python objects are records whose fields are the attributes the pydantic *)
(* classes declare; a Dict[str, X] is the sequence of its values in        *)
(* insertion order (every value carries its key as .name); Optional[X] is  *)
(* a sequence of length at most one (None is the empty sequence).          *)
(* A call either returns a value or raises: Return(v) / Raise(e).          *)
(***************************************************************************)
EXTENDS Integers, Sequences, FiniteSets, TLC

\* ------------------------------------------------------------------ bounds
\* Bit positions are drawn from 0..MaxPos.
MaxPos == 2
\* Enum entry values and looked-up values are drawn from 0..MaxValue.
MaxValue == 2

\* ------------------------------------------------------------ Python values
None == <<>>
Some(x) == <<x>>

Return(v) == [kind |-> "return", value |-> v]
Raise(e) == [kind |-> "raise", error |-> e]

Range(s) == {s[i] : i \in 1..Len(s)}

RECURSIVE Pow2(_)
Pow2(n) == IF n = 0 THEN 1 ELSE 2 * Pow2(n - 1)

\* Python's int & int
RECURSIVE BitAnd(_, _)
BitAnd(a, b) ==
    IF a = 0 \/ b = 0 THEN 0
    ELSE (a % 2) * (b % 2) + 2 * BitAnd(a \div 2, b \div 2)

\* Python's int >> int
ShiftRight(a, n) == a \div Pow2(n)

Min(S) == CHOOSE m \in S : \A x \in S : m <= x

\* the elements of a set of integers as an ascending list
RECURSIVE Ascending(_)
Ascending(S) == IF S = {} THEN <<>> ELSE <<Min(S)>> \o Ascending(S \ {Min(S)})

\* list(range(n))
ListRange(n) == [i \in 1..n |-> i - 1]

\* a remove that ignores a missing element (set.discard)
ListDiscard(l, x) == Return(SelectSeq(l, LAMBDA y : y # x))

\* list.remove(x): drops the first occurrence of x, ValueError if there is none
ListRemove(l, x) ==
    IF x \notin Range(l) THEN Raise("ValueError")
    ELSE LET i == Min({j \in 1..Len(l) : l[j] = x})
         IN Return(SubSeq(l, 1, i - 1) \o SubSeq(l, i + 1, Len(l)))

\* for bit in bitlist: bits.remove(bit)   (the first failing remove propagates)
RECURSIVE RemoveEach(_, _)
RemoveEach(l, bitlist) ==
    IF bitlist = <<>> THEN Return(l)
    ELSE LET r == ListRemove(l, Head(bitlist))
         IN IF r.kind = "raise" THEN r ELSE RemoveEach(r.value, Tail(bitlist))

\* ------------------------------------------------------------- reginald.bits
\* Bits: an ordered set of unique non-negative positions, kept in .bitlist
Bits(bitlist) == [bitlist |-> bitlist]

\* Bits.get_bitmask(): OR of 1 << p over the positions
RECURSIVE get_bitmask(_)
get_bitmask(bits) ==
    IF bits.bitlist = <<>> THEN 0
    ELSE Pow2(Head(bits.bitlist)) + get_bitmask(Bits(Tail(bits.bitlist)))

\* Bits.lsb_position(): the minimum position, EmptySet on an empty set
lsb_position(bits) ==
    IF bits.bitlist = <<>> THEN Raise("EmptySet")
    ELSE Return(Min(Range(bits.bitlist)))

\* ------------------------------------------------------------ datamodel.py
NoDocs == [brief |-> None, doc |-> None]

RegEnumEntry(name, value) == [name |-> name, value |-> value, docs |-> NoDocs]

RegEnum(name, is_shared, entries) ==
    [name |-> name, is_shared |-> is_shared, docs |-> NoDocs, entries |-> entries]

AlwaysWrite(bits, value) == [bits |-> bits, value |-> value]

Field(name, bits, enum) ==
    [name |-> name, bits |-> bits, access |-> <<"READ", "WRITE">>,
     docs |-> NoDocs, enum |-> enum]

Register(name, fields, bitwidth, always_write) ==
    [name |-> name, fields |-> fields, bitwidth |-> bitwidth, offset |-> 0,
     always_write |-> always_write, reset_val |-> None, docs |-> NoDocs]

RegisterBlock(name, registers) ==
    [name |-> name, instances |-> <<0>>, docs |-> NoDocs, registers |-> registers]

RegisterMap(map_name, registers, enums) ==
    [map_name |-> map_name, docs |-> NoDocs, registers |-> registers, enums |-> enums]

\* a scan that keeps the last match instead of returning at the first
RECURSIVE LastEntryName(_, _)
LastEntryName(entries, val) ==
    IF entries = <<>> THEN None
    ELSE LET r == LastEntryName(Tail(entries), val)
         IN IF r # None THEN r
            ELSE IF Head(entries).value = val THEN Some(Head(entries).name)
            ELSE None

\* Field.lookup_enum_entry_name(val)
RECURSIVE FirstEntryName(_, _)
FirstEntryName(entries, val) ==
    IF entries = <<>> THEN None
    ELSE IF Head(entries).value = val THEN Some(Head(entries).name)
    ELSE FirstEntryName(Tail(entries), val)

lookup_enum_entry_name(field, val) ==
    IF field.enum = None THEN Return(None)
    ELSE Return(FirstEntryName(field.enum[1].entries, val))

\* the bits of all fields, in the order the two nested loops visit them
RECURSIVE FieldBitsInOrder(_)
FieldBitsInOrder(fields) ==
    IF fields = <<>> THEN <<>>
    ELSE Head(fields).bits.bitlist \o FieldBitsInOrder(Tail(fields))

\* get_unused_bits with the test of include_always_write inverted
get_unused_bits_inverted(reg, include_always_write) ==
    LET r1 == RemoveEach(ListRange(reg.bitwidth), FieldBitsInOrder(reg.fields))
    IN IF r1.kind = "raise" THEN r1
       ELSE LET r2 == IF include_always_write /\ reg.always_write # None
                      THEN RemoveEach(r1.value, reg.always_write[1].bits.bitlist)
                      ELSE r1
            IN IF r2.kind = "raise" THEN r2 ELSE Return(Bits(r2.value))

\* get_unused_bits that starts from range(bitwidth - 1)
get_unused_bits_short(reg, include_always_write) ==
    LET r1 == RemoveEach(ListRange(reg.bitwidth - 1), FieldBitsInOrder(reg.fields))
    IN IF r1.kind = "raise" THEN r1
       ELSE LET r2 == IF ~include_always_write /\ reg.always_write # None
                      THEN RemoveEach(r1.value, reg.always_write[1].bits.bitlist)
                      ELSE r1
            IN IF r2.kind = "raise" THEN r2 ELSE Return(Bits(r2.value))

\* Register.get_unused_bits(include_always_write)
get_unused_bits(reg, include_always_write) ==
    LET bits0 == ListRange(reg.bitwidth)
        r1 == RemoveEach(bits0, FieldBitsInOrder(reg.fields))
    IN IF r1.kind = "raise" THEN r1
       ELSE LET r2 == IF ~include_always_write /\ reg.always_write # None
                      THEN RemoveEach(r1.value, reg.always_write[1].bits.bitlist)
                      ELSE r1
            IN IF r2.kind = "raise" THEN r2 ELSE Return(Bits(r2.value))

\* get_always_write_value that forgets to mask the literal
get_always_write_value_nomask(reg, bits) ==
    IF reg.always_write = None THEN Raise("ValueError")
    ELSE IF \E i \in 1..Len(bits.bitlist) :
                bits.bitlist[i] \notin Range(reg.always_write[1].bits.bitlist)
    THEN Raise("ValueError")
    ELSE LET lsb == lsb_position(bits)
         IN IF lsb.kind = "raise" THEN lsb
            ELSE Return(ShiftRight(reg.always_write[1].value, lsb.value))

\* get_always_write_value without the membership loop
get_always_write_value_nocheck(reg, bits) ==
    IF reg.always_write = None THEN Raise("ValueError")
    ELSE LET lsb == lsb_position(bits)
         IN IF lsb.kind = "raise" THEN lsb
            ELSE Return(ShiftRight(BitAnd(reg.always_write[1].value, get_bitmask(bits)),
                                   lsb.value))

\* Register.get_always_write_value(bits)
get_always_write_value(reg, bits) ==
    IF reg.always_write = None THEN Raise("ValueError")
    ELSE IF \E i \in 1..Len(bits.bitlist) :
                bits.bitlist[i] \notin Range(reg.always_write[1].bits.bitlist)
    THEN Raise("ValueError")
    ELSE LET lsb == lsb_position(bits)
         IN IF lsb.kind = "raise" THEN lsb
            ELSE Return(ShiftRight(BitAnd(reg.always_write[1].value, get_bitmask(bits)),
                                   lsb.value))

\* --------------------------------------------------------------- the inputs
Positions == 0..MaxPos
AllBits == {Bits(Ascending(S)) : S \in SUBSET Positions}
NonEmptyBits == AllBits \ {Bits(<<>>)}

FieldNames == <<"a", "b">>

\* fields dictionaries: at most Len(FieldNames) fields, keyed by FieldNames
FieldDicts ==
    UNION {{[i \in 1..n |-> Field(FieldNames[i], b[i], None)] : b \in [1..n -> NonEmptyBits]}
           : n \in 0..Len(FieldNames)}

AlwaysWrites ==
    {None} \cup {Some(AlwaysWrite(b, v)) : b \in NonEmptyBits, v \in 0..(Pow2(MaxPos + 1) - 1)}

\* no validator of datamodel.py rejects overlapping or out-of-range bits
Registers ==
    {Register("R", f, w, a) : f \in FieldDicts, w \in {MaxPos, MaxPos + 1}, a \in AlwaysWrites}


\* names of the enum entries of a Field under test
EntryNames == <<"A", "B", "C">>

\* entries dictionaries: distinct keys, values need not be distinct
EntryDicts ==
    UNION {{[i \in 1..n |-> RegEnumEntry(k[i], v[i])] :
                k \in {f \in [1..n -> Range(EntryNames)] :
                          \A i, j \in 1..n : f[i] = f[j] => i = j},
                v \in [1..n -> 0..MaxValue]}
           : n \in 0..Len(EntryNames)}

EnumFields ==
    {Field("f", Bits(<<0, 1>>), e) :
        e \in {None} \cup {Some(RegEnum("E", FALSE, d)) : d \in EntryDicts}}

\* ------------------------------------------------ c_funcpack/enums.py
\* hasattr(o, a): the attributes of a pydantic object are its declared fields
HasAttr(o, a) == a \in DOMAIN o

\* str.upper() / str.lower() on the names of the model
upper(s) ==
    CASE s = "Sensor_X" -> "SENSOR_X"
      [] s \in {"Mode", "mode"} -> "MODE"
      [] s \in {"Gain", "gain"} -> "GAIN"
      [] s = "Off" -> "OFF"
      [] s = "On" -> "ON"
      [] s = "Low" -> "LOW"
      [] s = "High" -> "HIGH"

lower(s) ==
    CASE s = "Sensor_X" -> "sensor_x"
      [] s \in {"Mode", "mode"} -> "mode"
      [] s \in {"Gain", "gain"} -> "gain"
      [] s = "Off" -> "off"
      [] s = "On" -> "on"
      [] s = "Low" -> "low"
      [] s = "High" -> "high"

\* reginald.utils.c_sanitize: a display name to an identifier fragment
c_sanitize(s) == IF s = "Sensor X" THEN "Sensor_X" ELSE s

HexDigits == <<"0", "1", "2", "3", "4", "5", "6", "7", "8", "9",
               "A", "B", "C", "D", "E", "F">>

\* format(v, "X")
RECURSIVE Hex(_)
Hex(v) == IF v < 16 THEN HexDigits[v + 1] ELSE Hex(v \div 16) \o HexDigits[(v % 16) + 1]

RECURSIVE Repeat(_, _)
Repeat(s, n) == IF n <= 0 THEN "" ELSE s \o Repeat(s, n - 1)

\* title_line, padded with "=" to 80 columns
TitleLine(title) ==
    LET title_line == "// ==== " \o title \o " Enums "
    IN IF Len(title_line) < 80 THEN title_line \o Repeat("=", 80 - Len(title_line))
       ELSE title_line

\* the symbol of one entry line and the alias of one typedef
EntrySymbol(devname_macro, name_orig, entryname_orig) ==
    devname_macro \o "_" \o upper(c_sanitize(name_orig)) \o "_"
        \o upper(c_sanitize(entryname_orig))

TypeAlias(devname_c, name_orig) == devname_c \o "_" \o lower(c_sanitize(name_orig)) \o "_t"

EntryLine(devname_macro, name_orig, entryname_orig, value) ==
    "  " \o EntrySymbol(devname_macro, name_orig, entryname_orig)
         \o " = 0x" \o Hex(value) \o "U,"

\* one typedef enum block: "for entryname_orig, entry in enum.items()" needs
\* enum to be a dictionary of entries; a RegEnum object has no items()
Typedef(devname_macro, devname_c, name_orig, enum) ==
    IF ~HasAttr(enum, "items") THEN Raise("AttributeError")
    ELSE Return(<<"typedef enum {">>
                \o [i \in 1..Len(enum.items) |->
                        EntryLine(devname_macro, name_orig,
                                  enum.items[i].name, enum.items[i].value)]
                \o <<"} " \o TypeAlias(devname_c, name_orig) \o ";", "">>)

\* for enumname_orig, enum in map.enums.items(): ...
RECURSIVE GlobalEnums(_, _, _)
GlobalEnums(devname_macro, devname_c, enums) ==
    IF enums = <<>> THEN Return(<<>>)
    ELSE LET t == Typedef(devname_macro, devname_c, Head(enums).name, Head(enums))
         IN IF t.kind = "raise" THEN t
            ELSE LET r == GlobalEnums(devname_macro, devname_c, Tail(enums))
                 IN IF r.kind = "raise" THEN r ELSE Return(t.value \o r.value)

\* for fieldname_orig, field in reg.fields.items(): ...
RECURSIVE FieldEnums(_, _, _)
FieldEnums(devname_macro, devname_c, fields) ==
    IF fields = <<>> THEN Return(<<>>)
    ELSE LET field == Head(fields)
             t == IF field.enum # None
                  THEN Typedef(devname_macro, devname_c, field.name, field.enum[1])
                  ELSE Return(<<>>)
         IN IF t.kind = "raise" THEN t
            ELSE LET r == FieldEnums(devname_macro, devname_c, Tail(fields))
                 IN IF r.kind = "raise" THEN r ELSE Return(t.value \o r.value)

\* the body of "for registername_orig, reg in map.registers.items()" for one
\* item: reg is whatever map.registers holds, and is read through reg.fields
RegisterSection(devname_macro, devname_c, reg) ==
    IF ~HasAttr(reg, "fields") THEN Raise("AttributeError")
    ELSE LET enum_count ==
                 Cardinality({i \in 1..Len(reg.fields) : reg.fields[i].enum # None})
         IN IF enum_count = 0 THEN Return(<<>>)
            ELSE LET f == FieldEnums(devname_macro, devname_c, reg.fields)
                 IN IF f.kind = "raise" THEN f
                    ELSE Return(<<"", TitleLine(reg.name), "">> \o f.value)

RECURSIVE RegisterSections(_, _, _)
RegisterSections(devname_macro, devname_c, registers) ==
    IF registers = <<>> THEN Return(<<>>)
    ELSE LET s == RegisterSection(devname_macro, devname_c, Head(registers))
         IN IF s.kind = "raise" THEN s
            ELSE LET r == RegisterSections(devname_macro, devname_c, Tail(registers))
                 IN IF r.kind = "raise" THEN r ELSE Return(s.value \o r.value)

\* Generator.generate(map, args): the lines of the returned text ("\n".join(out))
generate(map) ==
    IF ~HasAttr(map, "device_name") THEN Raise("AttributeError")
    ELSE LET devname == map.device_name
             devname_macro == upper(c_sanitize(devname))
             devname_c == lower(c_sanitize(devname))
             g == GlobalEnums(devname_macro, devname_c, map.enums)
         IN IF g.kind = "raise" THEN g
            ELSE LET s == RegisterSections(devname_macro, devname_c, map.registers)
                 IN IF s.kind = "raise" THEN s
                    ELSE Return(<<"/*",
                                  "* " \o devname \o " Register Enums.",
                                  "* Note: do not edit: Generated using Reginald.",
                                  "*/",
                                  "",
                                  "#ifndef " \o devname_macro \o "_REG_ENUMS_H_",
                                  "#define " \o devname_macro \o "_REG_ENUMS_H_",
                                  "",
                                  "",
                                  TitleLine("Global"),
                                  "">>
                                \o g.value \o s.value
                                \o <<"#endif /* " \o devname_macro \o "_REG_ENUMS_H_ */">>)

\* ------------------------------------------------- the maps handed to it
ModeEnum == RegEnum("Mode", TRUE, <<RegEnumEntry("Off", 0), RegEnumEntry("On", 1)>>)
GainEnum == RegEnum("Gain", FALSE, <<RegEnumEntry("Low", 0), RegEnumEntry("High", 1)>>)

ModeField(e) == Field("mode", Bits(<<0>>), e)
GainField(e) == Field("gain", Bits(<<1>>), e)

\* fields dictionaries of the registers of a map: fields with and without an
\* Enum, bound to the shared Enum or to a Field-local one
MapFieldDicts ==
    {<<>>,
     <<ModeField(None)>>,
     <<ModeField(Some(ModeEnum))>>,
     <<GainField(Some(GainEnum))>>,
     <<ModeField(None), GainField(Some(GainEnum))>>,
     <<ModeField(Some(ModeEnum)), GainField(Some(GainEnum))>>}

BlockNames == <<"B0", "B1">>
\* the register names of each block
RegisterNames == <<<<"CTRL", "STAT">>, <<"CONF", "DATA">>>>

RegisterDicts(b) ==
    UNION {{[i \in 1..n |-> Register(RegisterNames[b][i], f[i], 8, None)] :
                f \in [1..n -> MapFieldDicts]}
           : n \in 0..Len(RegisterNames[b])}

BlockDicts ==
    UNION {{[b \in 1..n |-> RegisterBlock(BlockNames[b], r[b])] :
                r \in {q \in [1..n -> UNION {RegisterDicts(c) : c \in 1..n}] :
                          \A c \in 1..n : q[c] \in RegisterDicts(c)}}
           : n \in 0..Len(BlockNames)}

RegisterMaps ==
    {RegisterMap("Sensor X", b, e) : b \in BlockDicts, e \in {<<>>, <<ModeEnum>>}}

\* ------------------------------------------------------------------- state
\* obj: the object the caller has constructed (the model is never mutated
\*      after construction); cls: its class
\* call: the method call made on it, ret: what that call returned or raised
\* No method assigns to self or to the map, so a later call sees the object
\* of the first one: one call per object (two for generate) covers them all.
VARIABLES obj, cls, call, ret

vars == <<obj, cls, call, ret>>

NoCall == [op |-> "none"]

Init ==
    /\ \/ cls = "Register" /\ obj \in Registers
       \/ cls = "Field" /\ obj \in EnumFields
       \/ cls = "RegisterMap" /\ obj \in RegisterMaps
    /\ call = NoCall
    /\ ret = Return(None)

GetUnusedBits ==
    /\ cls = "Register"
    /\ call = NoCall
    /\ \E inc \in BOOLEAN :
        /\ call' = [op |-> "get_unused_bits", include_always_write |-> inc]
        /\ ret' = get_unused_bits(obj, inc)
    /\ UNCHANGED <<obj, cls>>

GetAlwaysWriteValue ==
    /\ cls = "Register"
    /\ call = NoCall
    /\ \E b \in AllBits :
        /\ call' = [op |-> "get_always_write_value", bits |-> b]
        /\ ret' = get_always_write_value(obj, b)
    /\ UNCHANGED <<obj, cls>>

LookupEnumEntryName ==
    /\ cls = "Field"
    /\ call = NoCall
    /\ \E v \in 0..(MaxValue + 1) :
        /\ call' = [op |-> "lookup_enum_entry_name", val |-> v]
        /\ ret' = lookup_enum_entry_name(obj, v)
    /\ UNCHANGED <<obj, cls>>

\* first invocation of the generator on the map
Generate ==
    /\ cls = "RegisterMap"
    /\ call = NoCall
    /\ call' = [op |-> "generate", n |-> 1, prev |-> None]
    /\ ret' = generate(obj)
    /\ UNCHANGED <<obj, cls>>

\* second invocation on the same, unmodified map; prev keeps the first result
GenerateAgain ==
    /\ cls = "RegisterMap"
    /\ call.op = "generate"
    /\ call.n = 1
    /\ call' = [op |-> "generate", n |-> 2, prev |-> Some(ret)]
    /\ ret' = generate(obj)
    /\ UNCHANGED <<obj, cls>>

Next ==
    \/ GetUnusedBits
    \/ GetAlwaysWriteValue
    \/ LookupEnumEntryName
    \/ Generate
    \/ GenerateAgain

Spec == Init /\ [][Next]_vars

\* ------------------------------------------------ properties of Register
FieldPositions(reg) == UNION {Range(reg.fields[i].bits.bitlist) : i \in 1..Len(reg.fields)}

AlwaysWritePositions(reg) ==
    IF reg.always_write = None THEN {} ELSE Range(reg.always_write[1].bits.bitlist)

FieldsOverlap(reg) ==
    \E i, j \in 1..Len(reg.fields) :
        i # j /\ Range(reg.fields[i].bits.bitlist) \cap Range(reg.fields[j].bits.bitlist) # {}

FieldOutOfRange(reg) == \E p \in FieldPositions(reg) : p >= reg.bitwidth

AlwaysWriteOverlap(reg) == FieldPositions(reg) \cap AlwaysWritePositions(reg) # {}

AlwaysWriteOutOfRange(reg) == \E p \in AlwaysWritePositions(reg) : p >= reg.bitwidth

\* the Register invariants of the data model
ValidRegister(reg) ==
    /\ ~FieldsOverlap(reg)
    /\ ~FieldOutOfRange(reg)
    /\ ~AlwaysWriteOverlap(reg)
    /\ ~AlwaysWriteOutOfRange(reg)

CalledUnusedBits == cls = "Register" /\ call.op = "get_unused_bits"

\* A, B and C are pairwise disjoint and together make up U
Partition3(A, B, C, U) ==
    /\ A \cap B = {}
    /\ A \cap C = {}
    /\ B \cap C = {}
    /\ A \cup B \cup C = U

\* C1 (as stated): on a valid Register, Field bits, AlwaysWrite bits and
\* get_unused_bits(true) are pairwise disjoint and cover [0, bitwidth).
C1_Original ==
    (CalledUnusedBits /\ call.include_always_write /\ ValidRegister(obj)) =>
        /\ ret.kind = "return"
        /\ Partition3(FieldPositions(obj), AlwaysWritePositions(obj),
                      Range(ret.value.bitlist), 0..(obj.bitwidth - 1))

\* C1 (amended): on a valid Register, Field bits, AlwaysWrite bits and
\* get_unused_bits(false) are pairwise disjoint and cover [0, bitwidth).
C1_Amended ==
    (CalledUnusedBits /\ ~call.include_always_write /\ ValidRegister(obj)) =>
        /\ ret.kind = "return"
        /\ Partition3(FieldPositions(obj), AlwaysWritePositions(obj),
                      Range(ret.value.bitlist), 0..(obj.bitwidth - 1))

C1_Witness ==
    /\ CalledUnusedBits
    /\ ~call.include_always_write
    /\ ValidRegister(obj)
    /\ obj.always_write # None
    /\ obj.fields # <<>>
    /\ ret.kind = "return"
    /\ ret.value.bitlist # <<>>

\* C9: on a Register without AlwaysWrite whose Fields are pairwise disjoint
\* and inside [0, bitwidth), get_unused_bits returns, for either value of
\* include_always_write, exactly the positions of no Field in ascending
\* order, and the call leaves the Register as it was.
C9_UnusedBits ==
    /\ [](( /\ CalledUnusedBits
            /\ obj.always_write = None
            /\ ~FieldsOverlap(obj)
            /\ ~FieldOutOfRange(obj))
          => ret = Return(Bits(Ascending((0..(obj.bitwidth - 1)) \ FieldPositions(obj)))))
    /\ [][call'.op = "get_unused_bits" => obj' = obj]_vars

C9_Witness ==
    /\ CalledUnusedBits
    /\ obj.always_write = None
    /\ Len(obj.fields) = 2
    /\ ~FieldsOverlap(obj)
    /\ ~FieldOutOfRange(obj)
    /\ ret.kind = "return"
    /\ ret.value.bitlist # <<>>

\* C10 (as stated): for either value of include_always_write,
\* get_unused_bits fails exactly when the Register violates its bit
\* invariants (sibling Fields overlap, a Field overlaps AlwaysWrite, or a
\* Field or AlwaysWrite position is >= bitwidth).
C10_Original ==
    CalledUnusedBits => (ret.kind = "raise" <=> ~ValidRegister(obj))

\* C10 (amended): get_unused_bits fails (list.remove's ValueError) exactly
\* when two sibling Fields share a position or a Field position is
\* >= bitwidth, or, with include_always_write = false only, when a Field
\* shares a position with AlwaysWrite or an AlwaysWrite position is
\* >= bitwidth; it never fails on a valid Register.
C10_Amended ==
    CalledUnusedBits =>
        /\ ret.kind = "raise" <=>
              \/ FieldsOverlap(obj)
              \/ FieldOutOfRange(obj)
              \/ /\ ~call.include_always_write
                 /\ AlwaysWriteOverlap(obj) \/ AlwaysWriteOutOfRange(obj)
        /\ ret.kind = "raise" => ret.error = "ValueError"

C10_Witness ==
    /\ CalledUnusedBits
    /\ call.include_always_write
    /\ AlwaysWriteOverlap(obj)
    /\ ret.kind = "return"

\* v << n
ShiftLeft(a, n) == a * Pow2(n)

\* the number of bits of a
RECURSIVE BitLength(_)
BitLength(a) == IF a = 0 THEN 0 ELSE 1 + BitLength(a \div 2)

\* bit p of a
BitAt(a, p) == (a \div Pow2(p)) % 2

Max(S) == CHOOSE m \in S : \A x \in S : m >= x

CalledAlwaysWriteValue == cls = "Register" /\ call.op = "get_always_write_value"

\* bits is a non-empty strict subset of the AlwaysWrite BitSet
StrictSubsetQuery ==
    /\ CalledAlwaysWriteValue
    /\ obj.always_write # None
    /\ call.bits.bitlist # <<>>
    /\ Range(call.bits.bitlist) \subseteq AlwaysWritePositions(obj)
    /\ Range(call.bits.bitlist) # AlwaysWritePositions(obj)

\* v shifted back to the lsb of bits is the literal at the positions of bits
Reinserted(v, bits, literal) ==
    /\ \A p \in Range(bits.bitlist) :
          BitAt(ShiftLeft(v, Min(Range(bits.bitlist))), p) = BitAt(literal, p)
    /\ ShiftLeft(v, Min(Range(bits.bitlist))) = BitAnd(literal, get_bitmask(bits))

Contiguous(bits) ==
    Max(Range(bits.bitlist)) - Min(Range(bits.bitlist)) + 1 = Len(bits.bitlist)

\* C3 (as stated): for a non-empty strict subset bits of the AlwaysWrite
\* BitSet, contiguous or not, the returned value has bit-length at most
\* popcount(bits) and written back at bits reproduces the literal there.
C3_Original ==
    StrictSubsetQuery =>
        /\ ret.kind = "return"
        /\ BitLength(ret.value) <= Len(call.bits.bitlist)
        /\ Reinserted(ret.value, call.bits, obj.always_write[1].value)

\* C3 (amended): the returned value has bit-length at most
\* max(bits) - min(bits) + 1, which is popcount(bits) when bits is
\* contiguous, and shifted left by min(bits) it equals the literal masked
\* to the positions of bits.
C3_Amended ==
    StrictSubsetQuery =>
        /\ ret.kind = "return"
        /\ BitLength(ret.value)
              <= Max(Range(call.bits.bitlist)) - Min(Range(call.bits.bitlist)) + 1
        /\ Contiguous(call.bits) => BitLength(ret.value) <= Len(call.bits.bitlist)
        /\ Reinserted(ret.value, call.bits, obj.always_write[1].value)

C3_Witness ==
    /\ StrictSubsetQuery
    /\ ~Contiguous(call.bits)
    /\ ret.kind = "return"
    /\ BitLength(ret.value) > Len(call.bits.bitlist)

QueryOutsideAlwaysWrite ==
    /\ CalledAlwaysWriteValue
    /\ obj.always_write # None
    /\ ~(Range(call.bits.bitlist) \subseteq AlwaysWritePositions(obj))

\* C7 (as stated): get_always_write_value returns no value when the
\* Register has no AlwaysWrite or when a position of bits is outside the
\* AlwaysWrite BitSet; the two failures are distinct errors.
C7_Original ==
    /\ (CalledAlwaysWriteValue /\ obj.always_write = None) => ret.kind = "raise"
    /\ QueryOutsideAlwaysWrite =>
          /\ ret.kind = "raise"
          /\ ret # get_always_write_value([obj EXCEPT !.always_write = None], call.bits)

\* C7 (amended): in both cases the call raises the same ValueError and
\* returns no value, and the Register is as it was before the call.
C7_Amended ==
    /\ []((CalledAlwaysWriteValue /\ obj.always_write = None) => ret = Raise("ValueError"))
    /\ [](QueryOutsideAlwaysWrite => ret = Raise("ValueError"))
    /\ [][call'.op = "get_always_write_value" => obj' = obj]_vars

C7_Witness ==
    /\ QueryOutsideAlwaysWrite
    /\ Range(call.bits.bitlist) \cap AlwaysWritePositions(obj) # {}
    /\ ret.kind = "raise"

\* ---------------------------------------------------- properties of Field
CalledLookup == cls = "Field" /\ call.op = "lookup_enum_entry_name"

\* the indices of the entries of the Field's Enum whose value is val
Matches(field, val) ==
    IF field.enum = None THEN {}
    ELSE {i \in 1..Len(field.enum[1].entries) : field.enum[1].entries[i].value = val}

\* C5: lookup_enum_entry_name(v) returns none if the Field has no Enum or no
\* entry has value v; otherwise the name of the first entry in declared
\* order whose value is v, which names an entry of the Enum of value v.
C5_Lookup ==
    CalledLookup =>
        /\ ret.kind = "return"
        /\ Matches(obj, call.val) = {} => ret.value = None
        /\ Matches(obj, call.val) # {} =>
              /\ ret.value = Some(obj.enum[1].entries[Min(Matches(obj, call.val))].name)
              /\ \E i \in 1..Len(obj.enum[1].entries) :
                    /\ obj.enum[1].entries[i].name = ret.value[1]
                    /\ obj.enum[1].entries[i].value = call.val

C5_Witness ==
    /\ CalledLookup
    /\ Cardinality(Matches(obj, call.val)) >= 2
    /\ Min(Matches(obj, call.val)) > 1
    /\ ret = Return(Some(obj.enum[1].entries[Min(Matches(obj, call.val))].name))

\* ------------------------------------------- properties of the generator
CalledGenerate == cls = "RegisterMap" /\ call.op = "generate"

\* the Registers of all RegisterBlocks, block by block in declaration order
RECURSIVE AllRegisters(_)
AllRegisters(blocks) ==
    IF blocks = <<>> THEN <<>>
    ELSE Head(blocks).registers \o AllRegisters(Tail(blocks))

DeviceMacro(map) == upper(c_sanitize(map.map_name))
DeviceC(map) == lower(c_sanitize(map.map_name))

\* the typedef enum block the text is to hold for an Enum emitted under name
TypedefBlock(map, name, enum) ==
    <<"typedef enum {">>
    \o [i \in 1..Len(enum.entries) |->
            EntryLine(DeviceMacro(map), name, enum.entries[i].name, enum.entries[i].value)]
    \o <<"} " \o TypeAlias(DeviceC(map), name) \o ";">>

Occurs(block, text) ==
    \E i \in 0..(Len(text) - Len(block)) : SubSeq(text, i + 1, i + Len(block)) = block

NonBlank(text) == SelectSeq(text, LAMBDA l : l # "")

EnumFieldsOf(reg) == SelectSeq(reg.fields, LAMBDA f : f.enum # None)

SharedBound(map, field) == field.enum # None /\ field.enum[1] \in Range(map.enums)

\* the lines that open a register section or close the header
SectionMarks(map) ==
    {TitleLine(AllRegisters(map.registers)[i].name) :
        i \in 1..Len(AllRegisters(map.registers))}
    \cup {"#endif /* " \o DeviceMacro(map) \o "_REG_ENUMS_H_ */"}

\* the text from the first register section on
RegisterPart(map, text) ==
    LET at == {i \in 1..Len(text) : text[i] \in SectionMarks(map)}
    IN IF at = {} THEN <<>> ELSE SubSeq(text, Min(at), Len(text))

\* the non-blank lines between the section mark at i and the next mark
SectionBody(map, text, i) ==
    LET later == {j \in (i + 1)..Len(text) : text[j] \in SectionMarks(map)}
        end == IF later = {} THEN Len(text) ELSE Min(later) - 1
    IN NonBlank(SubSeq(text, i + 1, end))

RECURSIVE FieldTypedefs(_, _)
FieldTypedefs(map, fields) ==
    IF fields = <<>> THEN <<>>
    ELSE TypedefBlock(map, Head(fields).name, Head(fields).enum[1])
         \o FieldTypedefs(map, Tail(fields))

RECURSIVE SharedTypedefs(_, _)
SharedTypedefs(map, enums) ==
    IF enums = <<>> THEN <<>>
    ELSE TypedefBlock(map, Head(enums).name, Head(enums))
         \o SharedTypedefs(map, Tail(enums))

RECURSIVE SectionsInOrder(_, _)
SectionsInOrder(map, registers) ==
    IF registers = <<>> THEN <<>>
    ELSE (IF EnumFieldsOf(Head(registers)) = <<>> THEN <<>>
          ELSE <<TitleLine(Head(registers).name)>>
               \o FieldTypedefs(map, EnumFieldsOf(Head(registers))))
         \o SectionsInOrder(map, Tail(registers))

\* s is text with some lines left out
RECURSIVE IsSubsequence(_, _)
IsSubsequence(s, text) ==
    IF s = <<>> THEN TRUE
    ELSE IF text = <<>> THEN FALSE
    ELSE IF Head(s) = Head(text) THEN IsSubsequence(Tail(s), Tail(text))
    ELSE IsSubsequence(s, Tail(text))

SharedEnumsEmittedOnce(map, text) ==
    \A b \in 1..Len(map.registers) : \A r \in 1..Len(map.registers[b].registers) :
        LET reg == map.registers[b].registers[r]
        IN /\ \A f \in 1..Len(reg.fields) :
                SharedBound(map, reg.fields[f]) =>
                    /\ Occurs(TypedefBlock(map, reg.fields[f].enum[1].name,
                                           reg.fields[f].enum[1]), text)
                    /\ ~Occurs(TypedefBlock(map, reg.fields[f].name,
                                            reg.fields[f].enum[1]),
                               RegisterPart(map, text))
           /\ (\A f \in 1..Len(reg.fields) :
                    reg.fields[f].enum # None => SharedBound(map, reg.fields[f]))
                => TitleLine(reg.name) \notin Range(text)

\* C2: when a Field is bound to a shared Enum, generate returns a text that
\* holds the Enum's typedef block under the Enum's name, no typedef for the
\* Field in a register section, and no section header for a Register all of
\* whose enum-bearing Fields reference shared Enums.
C2_SharedEnumGlobalOnly ==
    (/\ CalledGenerate
     /\ \E i \in 1..Len(AllRegisters(obj.registers)) :
           \E f \in 1..Len(AllRegisters(obj.registers)[i].fields) :
               SharedBound(obj, AllRegisters(obj.registers)[i].fields[f]))
    => /\ ret.kind = "return"
       /\ SharedEnumsEmittedOnce(obj, ret.value)

SectionPerEnumRegister(map, text) ==
    \A b \in 1..Len(map.registers) : \A r \in 1..Len(map.registers[b].registers) :
        LET reg == map.registers[b].registers[r]
        IN /\ TitleLine(reg.name) \in Range(text) <=> EnumFieldsOf(reg) # <<>>
           /\ EnumFieldsOf(reg) # <<>> =>
                 \E i \in 1..Len(text) :
                     /\ text[i] = TitleLine(reg.name)
                     /\ SectionBody(map, text, i) = FieldTypedefs(map, EnumFieldsOf(reg))

\* C4: generate returns a text in which, for every Register of every
\* RegisterBlock, a section header names the Register iff it has a Field
\* with an Enum, and the section holds exactly one typedef block per
\* enum-bearing Field and nothing for the other Fields.
C4_SectionPerRegister ==
    (CalledGenerate /\ obj.registers # <<>>) =>
        /\ ret.kind = "return"
        /\ SectionPerEnumRegister(obj, ret.value)

\* the entry lines the map can give rise to, each with its symbol
EntryLinesOf(map) ==
    {[symbol |-> EntrySymbol(DeviceMacro(map), n, e.name),
      line |-> EntryLine(DeviceMacro(map), n, e.name, e.value)] :
        n \in {map.enums[i].name : i \in 1..Len(map.enums)}
              \cup {f.name : f \in UNION {Range(AllRegisters(map.registers)[i].fields) :
                                            i \in 1..Len(AllRegisters(map.registers))}},
        e \in UNION ({Range(map.enums[i].entries) : i \in 1..Len(map.enums)}
                     \cup {Range(f.enum[1].entries) :
                             f \in {g \in UNION {Range(AllRegisters(map.registers)[i].fields) :
                                                   i \in 1..Len(AllRegisters(map.registers))} :
                                      g.enum # None}})}

SymbolsUnique(map, text) ==
    \A i, j \in 1..Len(text) : \A c, d \in EntryLinesOf(map) :
        (i # j /\ text[i] = c.line /\ text[j] = d.line) => c.symbol # d.symbol

\* C6: generate returns a text in which no enum entry symbol is emitted
\* twice, across the global section and all register sections.
C6_UniqueSymbols ==
    (/\ CalledGenerate
     /\ \E i \in 1..Len(AllRegisters(obj.registers)) :
           EnumFieldsOf(AllRegisters(obj.registers)[i]) # <<>>)
    => /\ ret.kind = "return"
       /\ SymbolsUnique(obj, ret.value)

\* C8: generate returns a text that lists the shared Enum typedefs in
\* declaration order, then the register sections block by block and
\* register by register, typedefs in Field order and entries in entry
\* order; a second invocation on the same map returns the same text.
C8_DeclarationOrder ==
    CalledGenerate =>
        /\ ret.kind = "return"
        /\ IsSubsequence(SharedTypedefs(obj, obj.enums)
                         \o SectionsInOrder(obj, AllRegisters(obj.registers)),
                         ret.value)
        /\ call.n = 2 => call.prev = Some(ret)

====
